---- MODULE Spec2Model ----
(***************************************************************************)
(* Crawl pipeline of the SEO backend: the POST /crawl handler, the Celery  *)
(* broker, the run_crawl_job driver and the AsyncCrawler BFS loop, over a  *)
(* relational store seen through its committed rows.                       *)
(***************************************************************************)
EXTENDS Integers, Sequences, FiniteSets, TLC

\* ------------------------------------------------------------------ bounds
MaxJobs == 2            \* crawl_jobs rows ever created
MaxFaults == 2          \* anomalies per behaviour: exceptions, error responses, lost workers
MaxPagesIn == 2         \* largest max_pages a request asks for
MaxDepthIn == 2         \* largest max_depth a request asks for
MaxCallers == 3         \* coroutines that call acquire() concurrently
MaxAcquires == 4        \* acquire() calls made on one rate limiter
MaxTime == 5            \* last instant of the monotonic clock that is observed
TicksPerInterval == 2   \* clock ticks in one min_interval (1 / rate_per_second)
MaxCrawls == 2          \* crawl jobs that fetch the same page one after another
MaxLinksOver == 1       \* internal links a page carries beyond the per-page cap
MaxTx == 2              \* post-crawl transactions open at the same time
MaxUpserts == 3         \* bulk_upsert calls made in all
MaxImages == 2          \* <img> tags on a scored page
MaxUrlLen == 4          \* characters of a url after its scheme and host
MaxCbPages == 2         \* pages on_page_crawled is called for in one job
MaxOppsOver == 1        \* keyword opportunities a site has beyond the cap on rows
MaxFetches == 3         \* pages one crawler fetches

\* --------------------------------------------------------------- constants
ErrorMessageCap == 2000
SiteNotFoundLen == 14
LongErrorLen == 2500
ShortErrorLen == 40
LinkCap == 200
KeywordCap == 300
WordsPerMinute == 225
TechnicalWeight == 35
ContentWeight == 30
AuthorityWeight == 20
LinkingWeight == 10
AiVisibilityWeight == 5
TechnicalMax == 90
ContentMax == 95
CRAWLER_MAX_RETRIES == 3

\* ------------------------------------------------------------ environment
Domains == {"d1"}
JobIds == 1..MaxJobs
NoJob == 0

\* settings.CRAWLER_MAX_CONCURRENT is environment-driven configuration
ConcurrentSettings == {4, 8}

URL(p, s) == [path |-> p, slash |-> s]
Paths == {"", "a", "b"}
AllURLs == {URL(p, s) : p \in Paths, s \in BOOLEAN}

\* site.root_url as stored by start_crawl (validate_url strips the slash)
StartURL == URL("", FALSE)

\* raw hrefs the linked site serves, per page path
LinkedSite(p) ==
  CASE p = ""  -> <<URL("a", FALSE)>>
    [] p = "a" -> <<URL("b", TRUE)>>
    [] p = "b" -> <<URL("", FALSE)>>

\* <loc> entries a sitemap of the site may carry
SitemapCandidates == {URL("a", TRUE)}

\* path prefixes robots.txt disallows when it is served
RobotsDisallow == {"a"}

\* the sites the crawler is pointed at: sitemap entries, whether the pages
\* carry hrefs, whether robots.txt answers 200
Webs == [sitemap : SUBSET SitemapCandidates, linked : BOOLEAN, robots_txt : BOOLEAN]
SinglePage == [sitemap |-> {}, linked |-> FALSE, robots_txt |-> FALSE]

Min(a, b) == IF a < b THEN a ELSE b

SetToSeq(S) == CHOOSE f \in [1..Cardinality(S) -> S] : \A x \in S : \E i \in DOMAIN f : f[i] = x

\* ------------------------------------------------------------------- state
VARIABLES
  cfg,            \* settings.CRAWLER_MAX_CONCURRENT
  web,            \* the site being crawled
  inputs,         \* request bodies the clients send
  quota,          \* POST /crawl requests the clients have yet to send
  sites,          \* [Domains -> {"absent","pending","committed"}]  sites rows
  jobs,           \* [JobIds -> job row]                             crawl_jobs rows
  pages,          \* [AllURLs -> job id]                             pages rows (crawl_job_id)
  req,            \* job whose request transaction is still open
  broker,         \* set of job ids with a task message waiting
  faults,         \* count of anomalies so far
  pc,             \* position of the worker in run_crawl_job
  wjob,           \* job id the worker was handed
  robots,         \* robots_checker._parser is set
  url_queue, queued_urls, visited_urls, failed_urls,
  stats,          \* [pages_crawled, pages_failed]
  batch,          \* current batch, sequence of <<url, depth>>
  results,        \* per batch index: "new","held","denied","ok","bad","exc"
  idx,            \* index of the next result to process
  analyzed_pages, \* accumulator of the driver
  fetched,        \* urls handed to _fetch_url in this run
  called,         \* urls whose result was handed to on_page_crawled
  cb_errors       \* urls whose on_page_crawled raised

\* DomainRateLimiter and its callers
VARIABLES
  now,            \* time.monotonic()
  last_request,   \* [Hosts -> instant]      self._last_request
  locks,          \* [Hosts -> caller]       holder of self._locks[domain]
  acq,            \* [Callers -> frame of the acquire() coroutine]
  returned        \* [Hosts -> instants at which acquire(domain) returned]

rateVars == <<now, last_request, locks, acq, returned>>

\* on_page_crawled for one page of the site, over several crawl jobs
VARIABLES
  doc,            \* the html the site served for the page
  analyzed,       \* the AnalyzedPage of the callback
  page_row,       \* the pages row of (site_id, url)
  link_rows,      \* number of links rows with source_page_id = page.id, is_internal
  issue_rows,     \* issues rows of the page: <<crawl_job_id, issue_type>>
  score_rows,     \* scores rows with page_id = page.id: crawl_job_id
  cb_pc,          \* position inside on_page_crawled
  crawls          \* crawl jobs that have fetched the page so far

pageVars == <<doc, analyzed, page_row, link_rows, issue_rows, score_rows, cb_pc, crawls>>

\* KeywordRepository.bulk_upsert in concurrent post-crawl transactions
VARIABLES
  kw_rows,        \* [Keywords -> number of committed keywords rows of the site]
  kw_tx,          \* [Txs -> the session running bulk_upsert]
  upserts         \* bulk_upsert calls made so far

kwVars == <<kw_rows, kw_tx, upserts>>

\* SEOScorer.score_page
VARIABLES
  spage,          \* the AnalyzedPage handed to score_page
  inbound,        \* inbound_link_count
  pscore,         \* the PageScore returned
  sc_pc           \* "input" before the call, "scored" after it

scoreVars == <<spage, inbound, pscore, sc_pc>>

\* AsyncCrawler.normalize_url on the text of a url
VARIABLES
  url,            \* the url handed in: its characters after scheme and host
  once,           \* normalize_url(url)
  twice,          \* normalize_url(normalize_url(url))
  slashed,        \* normalize_url(url + "/")
  url_pc          \* "input", "once", "done"

urlVars == <<url, once, twice, slashed, url_pc>>

\* AsyncCrawler._fetch_with_http under its retry decorator
VARIABLES
  net,            \* what the network answers to the successive GETs of the url
  attempts,       \* calls of the decorated function body so far
  outcome,        \* how the last call of the body ended
  fetch_pc        \* "call", "decide", "returned", "raised"

fetchVars == <<net, attempts, outcome, fetch_pc>>

\* on_page_crawled: its transaction and the accumulators of the driver
VARIABLES
  tx_page,        \* the page the callback was called for, 0 before the first
  tx_links,       \* analyzed.internal_links is not empty
  tx_recs,        \* generate_page_recommendations returned something
  tx_at,          \* "idle", "analyze", "tx", "append", "returned", "raised"
  tx_step,        \* the statement of the transaction block that runs next
  tx_session,     \* what the open session has flushed
  tx_stored,      \* [CbPages -> what is committed for the page]
  acc_pages,      \* pages in the driver's analyzed_pages list
  acc_scores      \* pages whose score is in all_page_scores

cbVars == <<tx_page, tx_links, tx_recs, tx_at, tx_step, tx_session, tx_stored,
            acc_pages, acc_scores>>

\* the post-crawl transaction of the driver and its except handler
VARIABLES
  po_opps,        \* len(opportunities) returned by aggregate_site_keywords
  po_recs,        \* generate_site_recommendations returned something
  po_at,          \* "crawled", "tx", "returned", "handler", "raised"
  po_step,        \* the statement of the transaction block that runs next
  po_session,     \* what the open session has flushed
  po_kw_session,  \* keyword rows the open session has flushed
  po_stored,      \* what is committed of the post-crawl writes
  po_kw_rows,     \* keyword rows of this job that are committed
  po_status,      \* crawl_jobs.status of the job, as committed
  po_handler      \* "none", "committed", "raised": the handler's transaction

postVars == <<po_opps, po_recs, po_at, po_step, po_session, po_kw_session, po_stored,
              po_kw_rows, po_status, po_handler>>

\* the resources of one AsyncCrawler used as "async with AsyncCrawler(...)"
VARIABLES
  rs_js,          \* use_js_rendering
  rs_at,          \* "new", "playwright", "browser", "robots", "crawl", "page",
                  \* "teardown", "closed", "raised"
  rs_step,        \* the close call of _teardown that runs next
  rs_exc,         \* the body of the "async with" raised
  rs_held,        \* resources that are open
  rs_pages        \* pages fetched so far

resVars == <<rs_js, rs_at, rs_step, rs_exc, rs_held, rs_pages>>

\* SitemapParser.fetch_all against one site
VARIABLES
  sm_site,        \* [SitemapUrls -> the document the site serves there]
  sm_hints,       \* urls on the "Sitemap:" lines of a robots.txt answered with 200
  sm_at,          \* "discover", "parse", "return", "done"
  sm_i,           \* index of the next path to probe, or candidate to parse
  sm_candidates,  \* candidates of _discover_sitemaps
  sm_processed,   \* self._processed
  sm_gets,        \* urls requested with GET, in order
  sm_discovered,  \* discovered_urls
  sm_result       \* what fetch_all returned

smVars == <<sm_site, sm_hints, sm_at, sm_i, sm_candidates, sm_processed, sm_gets,
            sm_discovered, sm_result>>

coreVars == <<rateVars, pageVars, kwVars, scoreVars, urlVars, fetchVars>>
driverVars == <<cbVars, postVars, resVars, smVars>>
compVars == <<coreVars, driverVars>>

crawlerVars == <<robots, url_queue, queued_urls, visited_urls, failed_urls, stats,
                 batch, results, idx, analyzed_pages, fetched, called, cb_errors>>
envVars == <<cfg, web, inputs, compVars>>
pipelineVars == <<cfg, web, inputs, quota, sites, jobs, pages, req, broker, faults,
                  pc, wjob, crawlerVars>>

\* what the actions of one component leave alone
exceptRate == <<pipelineVars, pageVars, kwVars, scoreVars, urlVars, fetchVars, driverVars>>
exceptPage == <<pipelineVars, rateVars, kwVars, scoreVars, urlVars, fetchVars, driverVars>>
exceptKeywords == <<pipelineVars, rateVars, pageVars, scoreVars, urlVars, fetchVars, driverVars>>
exceptScore == <<pipelineVars, rateVars, pageVars, kwVars, urlVars, fetchVars, driverVars>>
exceptUrl == <<pipelineVars, rateVars, pageVars, kwVars, scoreVars, fetchVars, driverVars>>
exceptFetch == <<pipelineVars, rateVars, pageVars, kwVars, scoreVars, urlVars, driverVars>>
exceptCallback == <<pipelineVars, coreVars, postVars, resVars, smVars>>
exceptPost == <<pipelineVars, coreVars, cbVars, resVars, smVars>>
exceptResources == <<pipelineVars, coreVars, cbVars, postVars, smVars>>
exceptSitemap == <<pipelineVars, coreVars, cbVars, postVars, resVars>>

vars == <<envVars, quota, sites, jobs, pages, req, broker, faults, pc, wjob, crawlerVars>>

Terminal == {"completed", "failed", "cancelled"}
NonTerminal == {"pending", "running", "paused"}

NoRow == [status |-> "none", site |-> "d1", max_depth |-> 0, max_pages |-> 0,
          respect_robots |-> FALSE, pages_crawled |-> 0, pages_failed |-> 0,
          started_at |-> FALSE, completed_at |-> FALSE, error_len |-> 0,
          committed |-> FALSE]

\* rows another transaction can see
Visible(j) == jobs[j].status # "none" /\ jobs[j].committed

\* ---------------------------------------------------------- pure helpers
normalize_url(u) ==
  IF u.slash /\ u.path # "" THEN URL(u.path, FALSE) ELSE u

is_allowed_mut(u) == TRUE

\* RobotsChecker.is_allowed behind "if self.respect_robots and self.robots_checker"
is_allowed(u) == ~(robots /\ u.path \in RobotsDisallow)

max_concurrent_mut == cfg + 1

\* AsyncCrawler.__init__: the cap on concurrency
max_concurrent == Min(cfg \div 4, cfg)

\* CrawlResult.is_success for the three kinds of fetch outcome
is_success(r) == r = "ok"

\* str(e)[:2000]
Truncate(n) == Min(n, ErrorMessageCap)

ErrLens == {ShortErrorLen, LongErrorLen}

\* CrawlRequest bodies: max_depth >= 1, max_pages >= 1
CrawlRequests == [max_depth : 1..MaxDepthIn, max_pages : 1..MaxPagesIn, respect_robots : BOOLEAN]
DefaultRequest == [max_depth |-> MaxDepthIn, max_pages |-> MaxPagesIn, respect_robots |-> TRUE]

\* ------------------------------------------------------------------- Init
CrawlerInit ==
  /\ robots = FALSE
  /\ url_queue = <<>>
  /\ queued_urls = {}
  /\ visited_urls = {}
  /\ failed_urls = {}
  /\ stats = [pages_crawled |-> 0, pages_failed |-> 0]
  /\ batch = <<>>
  /\ results = <<>>
  /\ idx = 0
  /\ analyzed_pages = {}
  /\ fetched = {}
  /\ called = {}
  /\ cb_errors = {}

\* ------------------------------------------------- components at rest
Hosts == {"h1", "h2"}
Callers == 1..MaxCallers
NoCaller == 0

\* an acquire() coroutine that is not running
IdleFrame == [pc |-> "idle", domain |-> "h1", wake |-> 0]

\* DomainRateLimiter.__init__: defaultdict(float), defaultdict(asyncio.Lock)
RateIdle ==
  /\ now = 0
  /\ last_request = [h \in Hosts |-> 0]
  /\ locks = [h \in Hosts |-> NoCaller]
  /\ acq = [c \in Callers |-> IdleFrame]
  /\ returned = [h \in Hosts |-> <<>>]

Max(a, b) == IF a > b THEN a ELSE b

\* AnalyzedPage.__init__
NewAnalyzedPage ==
  [title |-> FALSE, word_count |-> 0, reading_time_seconds |-> 0,
   internal_links |-> 0, internal_links_count |-> 0]

NoDoc == [kind |-> "empty", title |-> FALSE, words |-> 0, links |-> 0]

NoPage == [exists |-> FALSE, crawl_job_id |-> NoJob, word_count |-> 0,
           reading_time_seconds |-> 0, internal_links_count |-> 0]

PageIdle ==
  /\ doc = NoDoc
  /\ analyzed = NewAnalyzedPage
  /\ page_row = NoPage
  /\ link_rows = 0
  /\ issue_rows = {}
  /\ score_rows = {}
  /\ cb_pc = "idle"
  /\ crawls = 0

Keywords == {"seo", "crawl"}
Txs == 1..MaxTx

\* a session with nothing to do
NoTx == [pc |-> "idle", todo |-> <<>>, added |-> [k \in Keywords |-> 0]]

KeywordsIdle ==
  /\ kw_rows = [k \in Keywords |-> 0]
  /\ kw_tx = [t \in Txs |-> NoTx]
  /\ upserts = 0

\* the fields of AnalyzedPage the scorer reads, at their defaults
LowTech == [is_https |-> FALSE, status_code |-> 0, is_indexable |-> TRUE,
            has_viewport_meta |-> FALSE, load_time_ms |-> 0, page_size_bytes |-> 0,
            canonical_tag |-> FALSE, has_schema_markup |-> FALSE, schema_matching |-> 0,
            has_open_graph |-> FALSE, has_twitter_card |-> FALSE, has_hreflang |-> FALSE]
LowContent == [title |-> FALSE, title_length |-> 0, meta_description |-> FALSE,
               meta_description_length |-> 0, h1_tags |-> 0, h2_tags |-> 0,
               word_count |-> 0, total_images |-> 0, images_with_alt |-> 0,
               text_html_ratio |-> 0]
LowLinks == [internal_links_count |-> 0]

\* PageScore()
NewPageScore == [overall_score |-> 0, technical_score |-> 0, content_score |-> 0,
                 authority_score |-> 0, linking_score |-> 0, ai_visibility_score |-> 0]

ScoreIdle ==
  /\ spage = [tech |-> LowTech, content |-> LowContent, links |-> LowLinks]
  /\ inbound = 0
  /\ pscore = NewPageScore
  /\ sc_pc = "input"

UrlIdle ==
  /\ url = <<>>
  /\ once = <<>>
  /\ twice = <<>>
  /\ slashed = <<>>
  /\ url_pc = "input"

FetchIdle ==
  /\ net = <<>>
  /\ attempts = 0
  /\ outcome = "none"
  /\ fetch_pc = "call"

\* pages on_page_crawled is called for, one after another
CbPages == 1..MaxCbPages

\* what one callback writes
Writes == {"page", "links", "issues", "counter"}

CallbackIdle ==
  /\ tx_page = 0
  /\ tx_links = FALSE
  /\ tx_recs = FALSE
  /\ tx_at = "idle"
  /\ tx_step = 1
  /\ tx_session = {}
  /\ tx_stored = [p \in CbPages |-> {}]
  /\ acc_pages = {}
  /\ acc_scores = {}

PostIdle ==
  /\ po_opps = 0
  /\ po_recs = FALSE
  /\ po_at = "crawled"
  /\ po_step = 1
  /\ po_session = {}
  /\ po_kw_session = 0
  /\ po_stored = {}
  /\ po_kw_rows = 0
  /\ po_status = "running"
  /\ po_handler = "none"

\* AsyncCrawler.__init__: no client, no driver, no browser
ResourcesIdle ==
  /\ rs_js = FALSE
  /\ rs_at = "new"
  /\ rs_step = 1
  /\ rs_exc = FALSE
  /\ rs_held = {}
  /\ rs_pages = 0

COMMON_SITEMAP_PATHS ==
  <<"/sitemap.xml", "/sitemap_index.xml", "/sitemap-index.xml", "/sitemaps.xml",
    "/sitemap/sitemap.xml", "/wp-sitemap.xml">>

\* sitemaps a site may keep outside the conventional paths
NamedSitemaps == {"/s1.xml", "/s2.xml"}

SitemapUrls == {COMMON_SITEMAP_PATHS[k] : k \in DOMAIN COMMON_SITEMAP_PATHS} \cup NamedSitemaps

\* nothing is served at the url: HEAD and GET answer 404
NoSitemap == [kind |-> "none", locs |-> {}]

\* SitemapParser.__init__ for a site that serves no sitemap
SitemapIdle ==
  /\ sm_site = [u \in SitemapUrls |-> NoSitemap]
  /\ sm_hints = {}
  /\ sm_at = "discover"
  /\ sm_i = 1
  /\ sm_candidates = <<>>
  /\ sm_processed = {}
  /\ sm_gets = <<>>
  /\ sm_discovered = {}
  /\ sm_result = {}

DriverIdle == CallbackIdle /\ PostIdle /\ ResourcesIdle /\ SitemapIdle

ComponentsIdle ==
  RateIdle /\ PageIdle /\ KeywordsIdle /\ ScoreIdle /\ UrlIdle /\ FetchIdle /\ DriverIdle

\* raw hrefs on the page at path p
PageLinks(p) == IF web.linked THEN LinkedSite(p) ELSE <<>>

Init ==
  /\ cfg \in ConcurrentSettings
  /\ web \in Webs \ {SinglePage}
  /\ inputs = CrawlRequests
  /\ quota = 1
  /\ sites = [d \in Domains |-> "absent"]
  /\ jobs = [j \in JobIds |-> NoRow]
  /\ pages = [u \in AllURLs |-> NoJob]
  /\ req = NoJob
  /\ broker = {}
  /\ faults = 0
  /\ pc = "idle"
  /\ wjob = NoJob
  /\ CrawlerInit
  /\ ComponentsIdle

\* the worker process forgets the crawler and the driver's locals
CrawlerReset ==
  /\ robots' = FALSE
  /\ url_queue' = <<>>
  /\ queued_urls' = {}
  /\ visited_urls' = {}
  /\ failed_urls' = {}
  /\ stats' = [pages_crawled |-> 0, pages_failed |-> 0]
  /\ batch' = <<>>
  /\ results' = <<>>
  /\ idx' = 0
  /\ analyzed_pages' = {}
  /\ fetched' = {}
  /\ called' = {}
  /\ cb_errors' = {}

\* --------------------------------------------------------- repositories
\* CrawlJobRepository.update_status: an UPDATE ... WHERE id = job_id, which
\* touches the row only when this transaction can see it
update_status(J, j, st, started, completed, elen) ==
  IF J[j].status # "none" /\ J[j].committed
  THEN [J EXCEPT ![j].status = st,
                 ![j].started_at = IF started THEN TRUE ELSE @,
                 ![j].completed_at = IF completed THEN TRUE ELSE @,
                 ![j].error_len = IF elen > 0 THEN elen ELSE @]
  ELSE J

\* CrawlJobRepository.increment_crawled(job_id, success=True)
increment_crawled(J, j) ==
  IF J[j].status # "none" /\ J[j].committed
  THEN [J EXCEPT ![j].pages_crawled = @ + 1]
  ELSE J

\* CrawlJobRepository.get_recent_for_site(site, limit=1): newest visible row
SiteJobs(d) == {j \in JobIds : Visible(j) /\ jobs[j].site = d}
get_recent_for_site(d) ==
  IF SiteJobs(d) = {} THEN NoJob
  ELSE CHOOSE j \in SiteJobs(d) : \A k \in SiteJobs(d) : k <= j

NumRows == Cardinality({j \in JobIds : jobs[j].status # "none"})

\* ------------------------------------------------------------ POST /crawl
\* start_crawl up to its return: site lookup or creation, the running-job
\* check, the job row, the task dispatch; the rows stay uncommitted
StartCrawl(d, md, mp, rr) ==
  /\ req = NoJob
  /\ quota > 0
  /\ quota' = quota - 1
  /\ LET recent == IF sites[d] = "committed" THEN get_recent_for_site(d) ELSE NoJob
         j == NumRows + 1
     IN IF recent # NoJob /\ jobs[recent].status = "running"
        THEN UNCHANGED <<sites, jobs, broker, req>>          \* 409, rolled back
        ELSE /\ sites' = [sites EXCEPT ![d] = IF @ = "absent" THEN "pending" ELSE @]
             /\ jobs' = [jobs EXCEPT ![j] =
                  [NoRow EXCEPT !.status = "pending", !.site = d, !.max_depth = md,
                                !.max_pages = mp, !.respect_robots = rr]]
             /\ broker' = broker \cup {j}
             /\ req' = j
  /\ UNCHANGED <<envVars, pages, faults, pc, wjob, crawlerVars>>

\* get_db: the session commits when the request ends
StartCrawlCommit ==
  /\ req # NoJob
  /\ jobs' = [jobs EXCEPT ![req].committed = TRUE]
  /\ sites' = [sites EXCEPT ![jobs[req].site] = "committed"]
  /\ req' = NoJob
  /\ UNCHANGED <<envVars, quota, pages, broker, faults, pc, wjob, crawlerVars>>

\* ---------------------------------------------------------- run_crawl_job
\* a worker takes the message and runs the first transaction of the driver:
\* mark running, load the site, load the job
TaskBegin(j) ==
  /\ pc = "idle"
  /\ j \in broker
  /\ broker' = broker \ {j}
  /\ wjob' = j
  /\ LET running == update_status(jobs, j, "running", TRUE, FALSE, 0)
         siteFound == sites[jobs[j].site] = "committed"
     IN \/ /\ ~siteFound
           /\ jobs' = update_status(running, j, "failed", FALSE, FALSE, SiteNotFoundLen)
           /\ pc' = "returned"
           /\ UNCHANGED faults
        \/ /\ siteFound /\ ~Visible(j)
           /\ jobs' = running
           /\ pc' = "returned"
           /\ UNCHANGED faults
        \/ /\ siteFound /\ Visible(j)
           /\ jobs' = running
           /\ pc' = "setup"
           /\ UNCHANGED faults
        \/ /\ faults < MaxFaults                 \* the transaction raises
           /\ faults' = faults + 1
           /\ pc' = "raised"
           /\ UNCHANGED jobs
  /\ UNCHANGED <<envVars, quota, sites, pages, req, crawlerVars>>

\* AsyncCrawler.__aenter__ / _setup
Setup ==
  /\ pc = "setup"
  /\ \/ /\ robots' = (jobs[wjob].respect_robots /\ web.robots_txt)
        /\ pc' = "seed"
        /\ UNCHANGED faults
     \/ /\ faults < MaxFaults
        /\ faults' = faults + 1
        /\ pc' = "handler"
        /\ UNCHANGED robots
  /\ UNCHANGED <<envVars, quota, sites, jobs, pages, req, broker, wjob,
                 url_queue, queued_urls, visited_urls, failed_urls, stats,
                 batch, results, idx, analyzed_pages, fetched, called, cb_errors>>

\* ------------------------------------------------------------ AsyncCrawler
RECURSIVE Enqueue_mut(_, _, _, _, _)
Enqueue_mut(q, qd, vis, seq, d) ==
  IF seq = <<>> THEN [q |-> q, qd |-> qd]
  ELSE LET n == normalize_url(Head(seq))
       IN Enqueue_mut(Append(q, <<n, d>>), qd \cup {n}, vis, Tail(seq), d)

RECURSIVE Enqueue(_, _, _, _, _)
\* append every url of seq that is neither queued nor visited, at depth d
Enqueue(q, qd, vis, seq, d) ==
  IF seq = <<>> THEN [q |-> q, qd |-> qd]
  ELSE LET n == normalize_url(Head(seq))
       IN IF n \notin qd /\ n \notin vis
          THEN Enqueue(Append(q, <<n, d>>), qd \cup {n}, vis, Tail(seq), d)
          ELSE Enqueue(q, qd, vis, Tail(seq), d)

RECURSIVE SeedQueue_mut(_, _, _)
SeedQueue_mut(q, qd, seq) ==
  IF seq = <<>> THEN [q |-> q, qd |-> qd]
  ELSE LET u == Head(seq)
       IN IF u \notin qd
          THEN SeedQueue_mut(Append(q, <<u, 0>>), qd, Tail(seq))
          ELSE SeedQueue_mut(q, qd, Tail(seq))

RECURSIVE SeedQueue(_, _, _)
\* crawl(): the initial urls go into the queue as they are, at depth 0
SeedQueue(q, qd, seq) ==
  IF seq = <<>> THEN [q |-> q, qd |-> qd]
  ELSE LET u == Head(seq)
       IN IF u \notin qd
          THEN SeedQueue(Append(q, <<u, 0>>), qd \cup {u}, Tail(seq))
          ELSE SeedQueue(q, qd, Tail(seq))

RECURSIVE Drain_mut(_, _, _, _)
Drain_mut(q, b, vis, cap) ==
  IF q = <<>> \/ Len(b) >= cap THEN [q |-> q, b |-> b, vis |-> vis]
  ELSE LET item == Head(q)
       IN IF item[1] \notin vis
          THEN Drain_mut(Tail(q), Append(b, item), vis, cap)
          ELSE Drain_mut(Tail(q), b, vis, cap)

RECURSIVE Drain(_, _, _, _)
\* crawl(): pop until the batch holds max_concurrent unvisited urls
Drain(q, b, vis, cap) ==
  IF q = <<>> \/ Len(b) >= cap THEN [q |-> q, b |-> b, vis |-> vis]
  ELSE LET item == Head(q)
       IN IF item[1] \notin vis
          THEN Drain(Tail(q), Append(b, item), vis \cup {item[1]}, cap)
          ELSE Drain(Tail(q), b, vis, cap)

\* crawl(): sitemap discovery and the seeding of the queue
Seed ==
  /\ pc = "seed"
  /\ \/ /\ LET r == SeedQueue(<<>>, {}, <<normalize_url(StartURL)>> \o SetToSeq(web.sitemap))
           IN /\ url_queue' = r.q
              /\ queued_urls' = r.qd
        /\ pc' = "loop"
        /\ UNCHANGED faults
     \/ /\ faults < MaxFaults
        /\ faults' = faults + 1
        /\ pc' = "handler"
        /\ UNCHANGED <<url_queue, queued_urls>>
  /\ UNCHANGED <<envVars, quota, sites, jobs, pages, req, broker, wjob, robots,
                 visited_urls, failed_urls, stats, batch, results, idx,
                 analyzed_pages, fetched, called, cb_errors>>

\* crawl(): the while test and the draining of one batch; leaving the loop
\* returns the stats and tears the crawler down
LoopStep ==
  /\ pc = "loop"
  /\ IF url_queue # <<>> /\ stats.pages_crawled < jobs[wjob].max_pages
     THEN LET r == Drain(url_queue, <<>>, visited_urls, max_concurrent)
          IN /\ url_queue' = r.q
             /\ visited_urls' = r.vis
             /\ IF r.b = <<>>
                THEN /\ pc' = "post"
                     /\ UNCHANGED <<batch, results, idx>>
                ELSE /\ pc' = "gather"
                     /\ batch' = r.b
                     /\ results' = [i \in 1..Len(r.b) |-> "new"]
                     /\ idx' = 1
     ELSE /\ pc' = "post"
          /\ UNCHANGED <<url_queue, visited_urls, batch, results, idx>>
  /\ UNCHANGED <<envVars, quota, sites, jobs, pages, req, broker, faults, wjob,
                 robots, queued_urls, failed_urls, stats, analyzed_pages,
                 fetched, called, cb_errors>>

Held == {i \in DOMAIN results : results[i] = "held"}

\* _crawl_page: the task enters the semaphore
TaskStart(i) ==
  /\ pc = "gather"
  /\ i \in DOMAIN results
  /\ results[i] = "new"
  /\ Cardinality(Held) < max_concurrent
  /\ results' = [results EXCEPT ![i] = "held"]
  /\ UNCHANGED <<envVars, quota, sites, jobs, pages, req, broker, faults, pc, wjob,
                 robots, url_queue, queued_urls, visited_urls, failed_urls, stats,
                 batch, idx, analyzed_pages, fetched, called, cb_errors>>

\* _crawl_page: robots check, fetch, link extraction; the semaphore is left
TaskFinish(i) ==
  /\ pc = "gather"
  /\ i \in DOMAIN results
  /\ results[i] = "held"
  /\ LET u == batch[i][1]
     IN IF ~is_allowed(u)
        THEN /\ results' = [results EXCEPT ![i] = "denied"]
             /\ UNCHANGED <<fetched, faults>>
        ELSE /\ fetched' = fetched \cup {u}
             /\ \/ /\ results' = [results EXCEPT ![i] = "ok"]
                   /\ UNCHANGED faults
                \/ /\ faults < MaxFaults
                   /\ faults' = faults + 1
                   /\ \E r \in {"bad", "exc"} : results' = [results EXCEPT ![i] = r]
  /\ UNCHANGED <<envVars, quota, sites, jobs, pages, req, broker, pc, wjob,
                 robots, url_queue, queued_urls, visited_urls, failed_urls, stats,
                 batch, idx, analyzed_pages, called, cb_errors>>

Gathered == \A i \in DOMAIN results : results[i] \in {"denied", "ok", "bad", "exc"}

\* links _crawl_page returns for a result
discovered_links(u, r) ==
  IF is_success(r) THEN PageLinks(u.path) ELSE <<>>

within_depth_mut(depth) == depth <= jobs[wjob].max_depth

\* crawl(): "if depth < self.max_depth" before the discovered links are enqueued
within_depth(depth) == depth < jobs[wjob].max_depth

after_callback_mut(raised, last) ==
  IF raised THEN "handler" ELSE IF last THEN "loop" ELSE "gather"

\* crawl(): where the result loop stands once the callback returned or raised;
\* "except Exception" logs the callback's error and goes on
after_callback(raised, last) == IF last THEN "loop" ELSE "gather"

\* crawl(): the body of "for i, result_data in enumerate(results)" for one
\* result, with the on_page_crawled transaction of the driver
ProcessResult ==
  /\ pc = "gather"
  /\ Gathered
  /\ idx \in DOMAIN results
  /\ LET u == batch[idx][1]
         depth == batch[idx][2]
         r == results[idx]
         last == idx = Len(batch)
         goon(nxt) == IF nxt = "gather"
                      THEN /\ idx' = idx + 1
                           /\ UNCHANGED <<batch, results>>
                      ELSE /\ batch' = <<>>
                           /\ results' = <<>>
                           /\ idx' = 0
     IN CASE r = "exc" ->
               /\ failed_urls' = failed_urls \cup {u}
               /\ stats' = [stats EXCEPT !.pages_failed = @ + 1]
               /\ pc' = IF last THEN "loop" ELSE "gather"
               /\ goon(pc')
               /\ UNCHANGED <<jobs, pages, analyzed_pages, called, cb_errors, faults,
                              url_queue, queued_urls>>
          [] r = "denied" ->
               /\ pc' = IF last THEN "loop" ELSE "gather"
               /\ goon(pc')
               /\ UNCHANGED <<failed_urls, stats, jobs, pages, analyzed_pages, called,
                              cb_errors, faults, url_queue, queued_urls>>
          [] OTHER ->
               /\ IF is_success(r)
                  THEN /\ stats' = [stats EXCEPT !.pages_crawled = @ + 1]
                       /\ UNCHANGED failed_urls
                  ELSE /\ stats' = [stats EXCEPT !.pages_failed = @ + 1]
                       /\ failed_urls' = failed_urls \cup {u}
               /\ called' = called \cup {u}
               /\ \/ /\ pages' = [pages EXCEPT ![u] = wjob]     \* committed
                     /\ jobs' = increment_crawled(jobs, wjob)
                     /\ analyzed_pages' = analyzed_pages \cup {u}
                     /\ UNCHANGED <<faults, cb_errors>>
                  \/ /\ faults < MaxFaults                      \* rolled back
                     /\ faults' = faults + 1
                     /\ cb_errors' = cb_errors \cup {u}
                     /\ UNCHANGED <<pages, jobs, analyzed_pages>>
               /\ pc' = after_callback(cb_errors' # cb_errors, last)
               /\ goon(pc')
               /\ IF within_depth(depth) /\ pc' # "handler"
                  THEN LET e == Enqueue(url_queue, queued_urls, visited_urls,
                                        discovered_links(u, r), depth + 1)
                       IN /\ url_queue' = e.q
                          /\ queued_urls' = e.qd
                  ELSE UNCHANGED <<url_queue, queued_urls>>
  /\ UNCHANGED <<envVars, quota, sites, req, broker, wjob, robots, visited_urls, fetched>>

\* the post-crawl transaction: aggregation and the completed status
PostCrawl ==
  /\ pc = "post"
  /\ \/ /\ jobs' = [update_status(jobs, wjob, "completed", FALSE, TRUE, 0)
                      EXCEPT ![wjob].pages_crawled = stats.pages_crawled,
                             ![wjob].pages_failed = stats.pages_failed]
        /\ pc' = "returned"
        /\ UNCHANGED faults
     \/ /\ faults < MaxFaults
        /\ faults' = faults + 1
        /\ pc' = "handler"
        /\ UNCHANGED jobs
  /\ UNCHANGED <<envVars, quota, sites, pages, req, broker, wjob, crawlerVars>>

\* except Exception: mark the job failed, then raise
Handler ==
  /\ pc = "handler"
  /\ \/ /\ \E e \in ErrLens :
             jobs' = update_status(jobs, wjob, "failed", FALSE, TRUE, Truncate(e))
        /\ UNCHANGED faults
     \/ /\ faults < MaxFaults                    \* the handler's transaction raises
        /\ faults' = faults + 1
        /\ UNCHANGED jobs
  /\ pc' = "raised"
  /\ UNCHANGED <<envVars, quota, sites, pages, req, broker, wjob, crawlerVars>>

\* task_acks_late: the message is acknowledged once the task returned or raised
Ack ==
  /\ pc \in {"returned", "raised"}
  /\ pc' = "idle"
  /\ wjob' = NoJob
  /\ CrawlerReset
  /\ UNCHANGED <<envVars, quota, sites, jobs, pages, req, broker, faults>>

\* task_reject_on_worker_lost: the message of a lost worker is requeued
WorkerLost ==
  /\ pc # "idle"
  /\ faults < MaxFaults
  /\ faults' = faults + 1
  /\ broker' = broker \cup {wjob}
  /\ pc' = "idle"
  /\ wjob' = NoJob
  /\ CrawlerReset
  /\ UNCHANGED <<envVars, quota, sites, jobs, pages, req>>

\* the request api under load: several submissions for a one-page site
InitApi ==
  /\ cfg \in ConcurrentSettings
  /\ web = SinglePage
  /\ inputs = {DefaultRequest}
  /\ quota = MaxJobs
  /\ sites = [d \in Domains |-> "absent"]
  /\ jobs = [j \in JobIds |-> NoRow]
  /\ pages = [u \in AllURLs |-> NoJob]
  /\ req = NoJob
  /\ broker = {}
  /\ faults = 0
  /\ pc = "idle"
  /\ wjob = NoJob
  /\ CrawlerInit
  /\ ComponentsIdle

Next ==
  \/ \E d \in Domains, r \in inputs :
       StartCrawl(d, r.max_depth, r.max_pages, r.respect_robots)
  \/ StartCrawlCommit
  \/ \E j \in JobIds : TaskBegin(j)
  \/ Setup
  \/ Seed
  \/ LoopStep
  \/ \E i \in DOMAIN results : TaskStart(i)
  \/ \E i \in DOMAIN results : TaskFinish(i)
  \/ ProcessResult
  \/ PostCrawl
  \/ Handler
  \/ Ack
  \/ WorkerLost

Spec == Init /\ [][Next]_vars

\* an operator or another service sets a running job to cancelled
ExternalCancel(j) ==
  /\ Visible(j)
  /\ jobs[j].status = "running"
  /\ jobs' = update_status(jobs, j, "cancelled", FALSE, TRUE, 0)
  /\ UNCHANGED <<envVars, quota, sites, pages, req, broker, faults, pc, wjob, crawlerVars>>

NextCancel == Next \/ \E j \in JobIds : ExternalCancel(j)

SpecCancel == Init /\ [][NextCancel]_vars

SpecApi == InitApi /\ [][Next]_vars

\* the except handler when its own transaction commits
HandlerCommitted == Handler /\ faults' = faults

\* the steps of a worker process that lives on
Worker ==
  \/ \E j \in JobIds : TaskBegin(j)
  \/ Setup
  \/ Seed
  \/ LoopStep
  \/ \E i \in DOMAIN results : TaskStart(i)
  \/ \E i \in DOMAIN results : TaskFinish(i)
  \/ ProcessResult
  \/ PostCrawl
  \/ HandlerCommitted
  \/ Ack

NextLive ==
  \/ \E d \in Domains, r \in inputs :
       StartCrawl(d, r.max_depth, r.max_pages, r.respect_robots)
  \/ StartCrawlCommit
  \/ Worker

\* the event loop runs the driver as long as it has a step to take: every
\* await of the driver returns
SpecLive == Init /\ [][NextLive]_vars /\ WF_vars(Worker)

\* the crawl pipeline at rest, for the specifications of single components
PipelineIdle ==
  /\ cfg = 4
  /\ web = SinglePage
  /\ inputs = {}
  /\ quota = 0
  /\ sites = [d \in Domains |-> "absent"]
  /\ jobs = [j \in JobIds |-> NoRow]
  /\ pages = [u \in AllURLs |-> NoJob]
  /\ req = NoJob
  /\ broker = {}
  /\ faults = 0
  /\ pc = "idle"
  /\ wjob = NoJob
  /\ CrawlerInit

\* ------------------------------------------------------ DomainRateLimiter
\* time.monotonic() starts anywhere; _last_request defaults to 0.0
InitRate ==
  /\ PipelineIdle
  /\ PageIdle /\ KeywordsIdle /\ ScoreIdle /\ UrlIdle /\ FetchIdle /\ DriverIdle
  /\ now \in 0..TicksPerInterval
  /\ last_request = [h \in Hosts |-> 0]
  /\ locks = [h \in Hosts |-> NoCaller]
  /\ acq = [c \in Callers |-> IdleFrame]
  /\ returned = [h \in Hosts |-> <<>>]

\* the clock advances
Tick ==
  /\ now < MaxTime
  /\ now' = now + 1
  /\ UNCHANGED <<exceptRate, last_request, locks, acq, returned>>

NumAcquires ==
  Cardinality({c \in Callers : acq[c].pc # "idle"})
    + Len(returned["h1"]) + Len(returned["h2"])

\* a coroutine calls acquire(domain) and reaches "async with lock"
AcquireCall(c, h) ==
  /\ acq[c].pc = "idle"
  /\ NumAcquires < MaxAcquires
  /\ acq' = [acq EXCEPT ![c] = [pc |-> "lock", domain |-> h, wake |-> 0]]
  /\ UNCHANGED <<exceptRate, now, last_request, locks, returned>>

wait_time_mut(t, last) == 0

\* wait_time = self.min_interval - (now - last)
wait_time(t, last) == TicksPerInterval - (t - last)

\* acquire(): the lock is taken, the clock and _last_request are read; with
\* nothing to wait for the instant is recorded and the lock released at once
AcquireEnter(c) ==
  /\ acq[c].pc = "lock"
  /\ LET h == acq[c].domain
         w == wait_time(now, last_request[h])
     IN /\ locks[h] = NoCaller
        /\ IF w > 0
           THEN /\ locks' = [locks EXCEPT ![h] = c]
                /\ acq' = [acq EXCEPT ![c].pc = "sleep", ![c].wake = now + w]
                /\ UNCHANGED <<last_request, returned>>
           ELSE /\ last_request' = [last_request EXCEPT ![h] = now]
                /\ returned' = [returned EXCEPT ![h] = Append(@, now)]
                /\ acq' = [acq EXCEPT ![c] = IdleFrame]
                /\ UNCHANGED locks
  /\ UNCHANGED <<exceptRate, now>>

\* acquire(): asyncio.sleep(wait_time) is over, the instant is recorded and
\* the lock released
AcquireWake(c) ==
  /\ acq[c].pc = "sleep"
  /\ now >= acq[c].wake
  /\ LET h == acq[c].domain
     IN /\ last_request' = [last_request EXCEPT ![h] = now]
        /\ returned' = [returned EXCEPT ![h] = Append(@, now)]
        /\ locks' = [locks EXCEPT ![h] = NoCaller]
  /\ acq' = [acq EXCEPT ![c] = IdleFrame]
  /\ UNCHANGED <<exceptRate, now>>

NextRate ==
  \/ Tick
  \/ \E c \in Callers, h \in Hosts : AcquireCall(c, h)
  \/ \E c \in Callers : AcquireEnter(c)
  \/ \E c \in Callers : AcquireWake(c)

SpecRate == InitRate /\ [][NextRate]_vars

\* --------------------------------------------------------- on_page_crawled
WordCounts == {1, 150, 300}
LinkCounts == {0, 1, LinkCap, LinkCap + MaxLinksOver}

\* what a fetch of the page can bring back: an empty body, html from which
\* the text extractor returns nothing, html with readable text
Docs ==
  {NoDoc}
    \cup [kind : {"notext"}, title : BOOLEAN, words : {0}, links : LinkCounts]
    \cup [kind : {"text"}, title : BOOLEAN, words : WordCounts, links : LinkCounts]

\* SEOAnalyzer.analyze with _extract_basic_seo, _extract_content, _extract_links
analyze(d) ==
  IF d.kind = "empty" THEN NewAnalyzedPage
  ELSE [title |-> d.title,
        word_count |-> IF d.kind = "text" THEN d.words ELSE 0,
        reading_time_seconds |->
          IF d.kind = "text" THEN Max(1, (d.words * 60) \div WordsPerMinute) ELSE 0,
        internal_links |-> d.links,
        internal_links_count |-> d.links]

\* RecommendationEngine.generate_page_recommendations for the fields modelled
generate_page_recommendations(a) ==
  (IF ~a.title THEN {"missing_title"} ELSE {})
    \cup (IF a.word_count < 300 THEN {"thin_content"} ELSE {})
    \cup (IF a.internal_links_count = 0 /\ a.word_count > 100
          THEN {"no_internal_links"} ELSE {})

InitPage ==
  /\ PipelineIdle
  /\ ComponentsIdle

\* a crawl job fetched the page and the crawler calls on_page_crawled
PageFetched(d) ==
  /\ cb_pc = "idle"
  /\ crawls < MaxCrawls
  /\ crawls' = crawls + 1
  /\ doc' = d
  /\ cb_pc' = "analyze"
  /\ UNCHANGED <<exceptPage, analyzed, page_row, link_rows, issue_rows, score_rows>>

\* on_page_crawled: analyzer.analyze(crawl_result, depth)
PageAnalyze ==
  /\ cb_pc = "analyze"
  /\ analyzed' = analyze(doc)
  /\ cb_pc' = "tx"
  /\ UNCHANGED <<exceptPage, doc, page_row, link_rows, issue_rows, score_rows, crawls>>

\* on_page_crawled: the transaction with the page upsert, the bulk insert of
\* the first LinkCap internal links, score_page, the issue rows; it commits or
\* an exception rolls it back
PageTx ==
  /\ cb_pc = "tx"
  /\ \/ /\ page_row' = [exists |-> TRUE, crawl_job_id |-> crawls,
                        word_count |-> analyzed.word_count,
                        reading_time_seconds |-> analyzed.reading_time_seconds,
                        internal_links_count |-> analyzed.internal_links_count]
        /\ link_rows' = link_rows + Min(analyzed.internal_links, LinkCap)
        /\ issue_rows' = issue_rows \cup
                           {<<crawls, t>> : t \in generate_page_recommendations(analyzed)}
        /\ UNCHANGED score_rows
     \/ UNCHANGED <<page_row, link_rows, issue_rows, score_rows>>
  /\ cb_pc' = "idle"
  /\ UNCHANGED <<exceptPage, doc, analyzed, crawls>>

NextPage ==
  \/ \E d \in Docs : PageFetched(d)
  \/ PageAnalyze
  \/ PageTx

SpecPage == InitPage /\ [][NextPage]_vars

\* ------------------------------------------------ KeywordRepository
\* kw_records of one job: aggregate_site_keywords lists a keyword once
KeywordLists ==
  {<<k>> : k \in Keywords}
    \cup ({<<k1, k2>> : k1, k2 \in Keywords} \ {<<k, k>> : k \in Keywords})

InitKeywords ==
  /\ PipelineIdle
  /\ ComponentsIdle

\* the post-crawl transaction of a job reaches kw_repo.bulk_upsert(site, kws)
BulkUpsertCall(t, kws) ==
  /\ kw_tx[t].pc = "idle"
  /\ upserts < MaxUpserts
  /\ upserts' = upserts + 1
  /\ kw_tx' = [kw_tx EXCEPT ![t] = [NoTx EXCEPT !.pc = "loop", !.todo = kws]]
  /\ UNCHANGED <<exceptKeywords, kw_rows>>

\* select(Keyword).where(site_id, keyword): the committed rows; the session
\* does not autoflush, so rows it has added itself are not among them
select_keyword(k) == kw_rows[k]

\* bulk_upsert: one turn of "for kw_data in keywords": the select, then an
\* update of the row found or the add of a new one; scalar_one_or_none raises
\* when the select finds several rows and the transaction is rolled back
BulkUpsertStep(t) ==
  /\ kw_tx[t].pc = "loop"
  /\ kw_tx[t].todo # <<>>
  /\ LET k == Head(kw_tx[t].todo)
         found == select_keyword(k)
     IN kw_tx' = [kw_tx EXCEPT ![t] =
          IF found > 1 THEN NoTx
          ELSE IF found = 1 THEN [@ EXCEPT !.todo = Tail(@)]
          ELSE [@ EXCEPT !.todo = Tail(@), !.added[k] = @ + 1]]
  /\ UNCHANGED <<exceptKeywords, kw_rows, upserts>>

\* the flush at the end of bulk_upsert and the commit of get_db_context
BulkUpsertCommit(t) ==
  /\ kw_tx[t].pc = "loop"
  /\ kw_tx[t].todo = <<>>
  /\ kw_rows' = [k \in Keywords |-> kw_rows[k] + kw_tx[t].added[k]]
  /\ kw_tx' = [kw_tx EXCEPT ![t] = NoTx]
  /\ UNCHANGED <<exceptKeywords, upserts>>

NextKeywords ==
  \/ \E t \in Txs, kws \in KeywordLists : BulkUpsertCall(t, kws)
  \/ \E t \in Txs : BulkUpsertStep(t)
  \/ \E t \in Txs : BulkUpsertCommit(t)

SpecKeywords == InitKeywords /\ [][NextKeywords]_vars

\* ------------------------------------------------------------- SEOScorer
\* scores are kept as exact multiples of 1 / ScoreDen, the overall score and
\* the weighted sum as multiples of 1 / (100 * ScoreDen)
ScoreDen == 9 * 19
Full == 100 * ScoreDen

TechInputs ==
  [is_https : BOOLEAN, status_code : {200, 301, 404}, is_indexable : BOOLEAN,
   has_viewport_meta : BOOLEAN, load_time_ms : {1000, 2001, 5001},
   page_size_bytes : {0, 500 * 1024, 2048 * 1024},
   canonical_tag : BOOLEAN, has_schema_markup : {TRUE}, schema_matching : {0},
   has_open_graph : BOOLEAN, has_twitter_card : BOOLEAN, has_hreflang : BOOLEAN]
    \cup {[LowTech EXCEPT !.has_schema_markup = TRUE, !.schema_matching = n] : n \in 0..5}
    \cup {LowTech}

HighTech == [is_https |-> TRUE, status_code |-> 200, is_indexable |-> TRUE,
             has_viewport_meta |-> TRUE, load_time_ms |-> 1000, page_size_bytes |-> 0,
             canonical_tag |-> TRUE, has_schema_markup |-> TRUE, schema_matching |-> 5,
             has_open_graph |-> TRUE, has_twitter_card |-> TRUE, has_hreflang |-> TRUE]

\* (title, title_length) and (meta_description, meta_description_length) go together
Titles == {<<FALSE, 0>>, <<TRUE, 20>>, <<TRUE, 30>>, <<TRUE, 55>>, <<TRUE, 71>>}
Descriptions == {<<FALSE, 0>>, <<TRUE, 50>>, <<TRUE, 100>>, <<TRUE, 155>>}
Images == {<<t, w>> \in (0..MaxImages) \X (0..MaxImages) : w <= t}

HighContent == [title |-> TRUE, title_length |-> 55, meta_description |-> TRUE,
                meta_description_length |-> 155, h1_tags |-> 1, h2_tags |-> 2,
                word_count |-> 1500, total_images |-> 0, images_with_alt |-> 0,
                text_html_ratio |-> 300]

\* the head of a document and its headings vary, or its body does
ContentInputs ==
  {[b EXCEPT !.title = ti[1], !.title_length = ti[2],
             !.meta_description = de[1], !.meta_description_length = de[2],
             !.h1_tags = h1, !.h2_tags = h2] :
      ti \in Titles, de \in Descriptions, h1 \in 0..2, h2 \in 0..2,
      b \in {LowContent, HighContent}}
    \cup {[b EXCEPT !.word_count = wc, !.total_images = im[1], !.images_with_alt = im[2],
                    !.text_html_ratio = ra] :
            wc \in {0, 200, 400, 800, 1000, 1500}, im \in Images, ra \in {0, 150, 300},
            b \in {LowContent, HighContent}}

LinkInputs == [internal_links_count : {0, 1, 2, 5, 50, 51, 101}]
HighLinks == [internal_links_count |-> 5]

InboundCounts == {0, 1, 2, 5, 10, 20, 50}

LowPage == [tech |-> LowTech, content |-> LowContent, links |-> LowLinks]
HighPage == [tech |-> HighTech, content |-> HighContent, links |-> HighLinks]

\* calls of score_page: one group of fields varies in full while the others
\* are at their lowest or highest scoring values
ScoreCalls ==
  {<<[b EXCEPT !.tech = t], n>> : t \in TechInputs, b \in {LowPage, HighPage}, n \in {0, 50}}
    \cup {<<[b EXCEPT !.content = c], n>> :
            c \in ContentInputs, b \in {LowPage, HighPage}, n \in {0, 50}}
    \cup {<<[b EXCEPT !.links = l], n>> :
            l \in LinkInputs, b \in {LowPage, HighPage}, n \in InboundCounts}

InitScore ==
  /\ PipelineIdle
  /\ RateIdle /\ PageIdle /\ KeywordsIdle /\ UrlIdle /\ FetchIdle /\ DriverIdle
  /\ \E call \in ScoreCalls : spage = call[1] /\ inbound = call[2]
  /\ pscore = NewPageScore
  /\ sc_pc = "input"

clamp_mut(value, min_val, max_val) == value

\* clamp(value, min_val=0.0, max_val=100.0)
clamp(value, min_val, max_val) == Max(min_val, Min(max_val, value))

\* round() of a non-negative quotient: to the nearest integer, halves to even
round(num, den) ==
  LET q == num \div den
      r2 == 2 * (num % den)
  IN IF r2 < den THEN q
     ELSE IF r2 > den THEN q + 1
     ELSE IF q % 2 = 0 THEN q ELSE q + 1

\* _score_technical: the points, normalized to 100 over max_possible
score_technical(p) ==
  LET https_pts == IF p.is_https THEN 10 ELSE 0
      status_pts == IF p.status_code = 200 THEN 10
                    ELSE IF 200 < p.status_code /\ p.status_code < 400 THEN 5 ELSE 0
      index_pts == IF p.is_indexable THEN 15 ELSE 0
      viewport_pts == IF p.has_viewport_meta THEN 5 ELSE 0
      lt == p.load_time_ms
      lt_pts == IF lt <= 1000 THEN 10 ELSE IF lt <= 2000 THEN 7
                ELSE IF lt <= 3000 THEN 5 ELSE IF lt <= 5000 THEN 2 ELSE 0
      size_pts == IF p.page_size_bytes < 500 * 1024 THEN 10
                  ELSE IF p.page_size_bytes < 1024 * 1024 THEN 7
                  ELSE IF p.page_size_bytes < 2048 * 1024 THEN 3 ELSE 0
      canonical_pts == IF p.canonical_tag THEN 5 ELSE 0
      schema_pts == IF p.has_schema_markup THEN 10 ELSE 0
      og_pts == IF p.has_open_graph THEN 5 ELSE 0
      tc_pts == IF p.has_twitter_card THEN 5 ELSE 0
      hl_pts == IF p.has_hreflang THEN 5 ELSE 0
      score == https_pts + status_pts + index_pts + viewport_pts + lt_pts + size_pts
                 + canonical_pts + schema_pts + og_pts + tc_pts + hl_pts
  IN (score * Full) \div TechnicalMax

\* _score_content
score_content(p) ==
  LET title_pts == IF p.title
                   THEN IF 50 <= p.title_length /\ p.title_length <= 60 THEN 20
                        ELSE IF 30 <= p.title_length /\ p.title_length <= 70 THEN 15
                        ELSE IF p.title_length > 0 THEN 8 ELSE 0
                   ELSE 0
      desc_pts == IF p.meta_description
                  THEN IF 150 <= p.meta_description_length /\ p.meta_description_length <= 160
                       THEN 15
                       ELSE IF 100 <= p.meta_description_length
                               /\ p.meta_description_length <= 180 THEN 10 ELSE 5
                  ELSE 0
      h1_pts == IF p.h1_tags = 1 THEN 15 ELSE IF p.h1_tags > 1 THEN 8 ELSE 0
      h2_pts == IF p.h2_tags >= 2 THEN 5 ELSE IF p.h2_tags = 1 THEN 2 ELSE 0
      wc == p.word_count
      wc_pts == IF wc >= 1500 THEN 20 ELSE IF wc >= 800 THEN 15
                ELSE IF wc >= 400 THEN 10 ELSE IF wc >= 200 THEN 5 ELSE 0
      alt_pts == IF p.total_images > 0
                 THEN round(p.images_with_alt * 10, p.total_images) ELSE 10
      ratio_pts == IF p.text_html_ratio >= 300 THEN 10
                   ELSE IF p.text_html_ratio >= 150 THEN 5 ELSE 0
      score == title_pts + desc_pts + h1_pts + h2_pts + wc_pts + alt_pts + ratio_pts
  IN (score * Full) \div ContentMax

\* _score_linking
score_linking(p, inbound_count) ==
  LET out_count == p.internal_links_count
      out_pts == IF out_count >= 5 THEN 30 ELSE IF out_count >= 2 THEN 20
                 ELSE IF out_count >= 1 THEN 10 ELSE 0
      ratio_pts == IF 1 <= out_count /\ out_count <= 50 THEN 20
                   ELSE IF out_count > 100 THEN 5 ELSE 0
      in_pts == IF inbound_count >= 10 THEN 50 ELSE IF inbound_count >= 5 THEN 35
                ELSE IF inbound_count >= 2 THEN 20 ELSE IF inbound_count >= 1 THEN 10 ELSE 0
  IN (out_pts + ratio_pts + in_pts) * ScoreDen

\* _score_authority
score_authority(inbound_link_count) ==
  ScoreDen * (IF inbound_link_count >= 50 THEN 90 ELSE IF inbound_link_count >= 20 THEN 75
              ELSE IF inbound_link_count >= 10 THEN 60 ELSE IF inbound_link_count >= 5 THEN 45
              ELSE IF inbound_link_count >= 2 THEN 30 ELSE IF inbound_link_count >= 1 THEN 15
              ELSE 5)

\* _score_ai_visibility
score_ai_visibility(p) ==
  LET schema == IF p.tech.has_schema_markup THEN 40 + p.tech.schema_matching * 10 ELSE 0
      h1 == IF p.content.h1_tags = 1 THEN 15 ELSE 0
      h2 == IF p.content.h2_tags >= 2 THEN 15 ELSE 0
      og == IF p.tech.has_open_graph THEN 10 ELSE 0
      words == IF p.content.word_count >= 1000 THEN 10 ELSE 0
  IN clamp((schema + h1 + h2 + og + words) * ScoreDen, 0, Full)

\* the weighted sum of five scores, in units of 1 / (100 * ScoreDen)
weighted(t, c, a, l, v) ==
  t * TechnicalWeight + c * ContentWeight + a * AuthorityWeight
    + l * LinkingWeight + v * AiVisibilityWeight

\* SEOScorer.score_page
score_page(p, inbound_link_count) ==
  LET technical == clamp(score_technical(p.tech), 0, Full)
      content == clamp(score_content(p.content), 0, Full)
      authority == clamp(score_authority(inbound_link_count), 0, Full)
      linking == clamp(score_linking(p.links, inbound_link_count), 0, Full)
      ai == clamp(score_ai_visibility(p), 0, Full)
  IN [technical_score |-> technical, content_score |-> content,
      authority_score |-> authority, linking_score |-> linking,
      ai_visibility_score |-> ai,
      overall_score |-> clamp(weighted(technical, content, authority, linking, ai),
                              0, 100 * Full)]

\* the scorer is called
ScorePage ==
  /\ sc_pc = "input"
  /\ pscore' = score_page(spage, inbound)
  /\ sc_pc' = "scored"
  /\ UNCHANGED <<exceptScore, spage, inbound>>

NextScore == ScorePage

SpecScore == InitScore /\ [][NextScore]_vars

\* ------------------------------------------------- normalize_url, as text
\* a url is "http://host" followed by a tail; the tail is empty or starts
\* with the character that ends the host
UrlChars == {"/", "a", "?", "#", ";"}
UrlTails ==
  {<<>>} \cup UNION {{<<c>> \o t : c \in {"/", "?", "#"}, t \in [1..n -> UrlChars]} :
                      n \in 0..(MaxUrlLen - 1)}

\* str.find(c, start): the first index at or after start, 0 when there is none
Find(t, c, start) ==
  LET hits == {i \in DOMAIN t : i >= start /\ t[i] = c}
  IN IF hits = {} THEN 0 ELSE CHOOSE i \in hits : \A j \in hits : i <= j

\* str.rfind(c)
RFind(t, c) ==
  LET hits == {i \in DOMAIN t : t[i] = c}
  IN IF hits = {} THEN 0 ELSE CHOOSE i \in hits : \A j \in hits : i >= j

RECURSIVE rstrip(_, _)
\* str.rstrip(c)
rstrip(t, c) ==
  IF t # <<>> /\ t[Len(t)] = c THEN rstrip(SubSeq(t, 1, Len(t) - 1), c) ELSE t

\* urllib.parse.urlparse on the tail: fragment after the first "#", query
\* after the first "?", params after the first ";" of the last path segment
urlparse(t) ==
  LET f == Find(t, "#", 1)
      before == IF f = 0 THEN t ELSE SubSeq(t, 1, f - 1)
      q == Find(before, "?", 1)
      pathpart == IF q = 0 THEN before ELSE SubSeq(before, 1, q - 1)
      k == Find(pathpart, ";", Max(RFind(pathpart, "/"), 1))
  IN [path |-> IF k = 0 THEN pathpart ELSE SubSeq(pathpart, 1, k - 1),
      params |-> IF k = 0 THEN <<>> ELSE SubSeq(pathpart, k + 1, Len(pathpart)),
      query |-> IF q = 0 THEN <<>> ELSE SubSeq(before, q + 1, Len(before)),
      fragment |-> IF f = 0 THEN <<>> ELSE SubSeq(t, f + 1, Len(t))]

\* urllib.parse.urlunparse: an empty component is written without its mark
urlunparse(p) ==
  p.path
    \o (IF p.params # <<>> THEN <<";">> \o p.params ELSE <<>>)
    \o (IF p.query # <<>> THEN <<"?">> \o p.query ELSE <<>>)
    \o (IF p.fragment # <<>> THEN <<"#">> \o p.fragment ELSE <<>>)

\* AsyncCrawler.normalize_url
normalize_url_text(t) ==
  LET parsed == urlparse(t)
      normalized == urlunparse([parsed EXCEPT !.fragment = <<>>])
  IN IF normalized # <<>> /\ normalized[Len(normalized)] = "/" /\ parsed.path # <<"/">>
     THEN rstrip(normalized, "/")
     ELSE normalized

InitUrl ==
  /\ PipelineIdle
  /\ RateIdle /\ PageIdle /\ KeywordsIdle /\ ScoreIdle /\ FetchIdle /\ DriverIdle
  /\ url \in UrlTails
  /\ once = <<>>
  /\ twice = <<>>
  /\ slashed = <<>>
  /\ url_pc = "input"

\* normalize_url(url)
NormalizeOnce ==
  /\ url_pc = "input"
  /\ once' = normalize_url_text(url)
  /\ url_pc' = "once"
  /\ UNCHANGED <<exceptUrl, url, twice, slashed>>

\* normalize_url of the result, and of the url with a slash appended
NormalizeAgain ==
  /\ url_pc = "once"
  /\ twice' = normalize_url_text(once)
  /\ slashed' = normalize_url_text(Append(url, "/"))
  /\ url_pc' = "done"
  /\ UNCHANGED <<exceptUrl, url, once>>

NextUrl == NormalizeOnce \/ NormalizeAgain

SpecUrl == InitUrl /\ [][NextUrl]_vars

\* --------------------------------------------------------- _fetch_with_http
\* answers to one GET: a 200 response, a 500 response, httpx.TransportError,
\* httpx.TimeoutException
Answers == {"200", "500", "TransportError", "TimeoutException"}
TransportErrors == {"TransportError", "TimeoutException"}

InitFetch ==
  /\ PipelineIdle
  /\ RateIdle /\ PageIdle /\ KeywordsIdle /\ ScoreIdle /\ UrlIdle /\ DriverIdle
  /\ net \in [1..CRAWLER_MAX_RETRIES -> Answers]
  /\ attempts = 0
  /\ outcome = "none"
  /\ fetch_pc = "call"

\* the body of _fetch_with_http: a response becomes a CrawlResult with its
\* status code; "except Exception" turns any error of the GET into a
\* CrawlResult with status_code 0, so the body returns and never raises
fetch_body(answer) ==
  IF answer \in TransportErrors THEN "result:0" ELSE "result:" \o answer

\* one call of the decorated body
FetchAttempt ==
  /\ fetch_pc = "call"
  /\ attempts < CRAWLER_MAX_RETRIES
  /\ attempts' = attempts + 1
  /\ outcome' = fetch_body(net[attempts + 1])
  /\ fetch_pc' = "decide"
  /\ UNCHANGED <<exceptFetch, net>>

\* tenacity: retry_if_exception_type((TransportError, TimeoutException)) with
\* stop_after_attempt(CRAWLER_MAX_RETRIES); anything the body returns is handed
\* to the caller
FetchDecide ==
  /\ fetch_pc = "decide"
  /\ fetch_pc' = IF outcome \in TransportErrors
                 THEN IF attempts < CRAWLER_MAX_RETRIES THEN "call" ELSE "raised"
                 ELSE "returned"
  /\ UNCHANGED <<exceptFetch, net, attempts, outcome>>

NextFetch == FetchAttempt \/ FetchDecide

SpecFetch == InitFetch /\ [][NextFetch]_vars

\* -------------------------------------------------------- on_page_crawled
CoreIdle ==
  RateIdle /\ PageIdle /\ KeywordsIdle /\ ScoreIdle /\ UrlIdle /\ FetchIdle

\* the statements of the "async with get_db_context()" block, in order:
\* page_repo.upsert, link_repo.bulk_insert, scorer.score_page,
\* issue_repo.bulk_create, crawl_r.increment_crawled
CbSteps == <<"page", "links", "score", "issues", "counter">>

\* what a statement of the block flushes to the session: bulk_insert and
\* bulk_create return at once on an empty list, score_page writes nothing
flushed(step, links, recs) ==
  CASE step = "page" -> {"page"}
    [] step = "links" -> IF links THEN {"links"} ELSE {}
    [] step = "score" -> {}
    [] step = "issues" -> IF recs THEN {"issues"} ELSE {}
    [] step = "counter" -> {"counter"}

\* everything the callback of a page writes when it runs to its end
CbWrites(links, recs) ==
  UNION {flushed(CbSteps[k], links, recs) : k \in DOMAIN CbSteps}

get_db_context_mut(session, raised) == session

\* get_db_context: what the session leaves committed when the block is left:
\* commit() after the yield, rollback() when the block or the commit raised
get_db_context(session, raised) == IF raised THEN {} ELSE session

InitCallback ==
  /\ PipelineIdle
  /\ CoreIdle
  /\ CallbackIdle
  /\ PostIdle
  /\ ResourcesIdle
  /\ SitemapIdle

\* the crawler awaits on_page_crawled(crawl_result, depth) for the next page
CbCall(links, recs) ==
  /\ tx_at \in {"idle", "returned", "raised"}
  /\ tx_page < MaxCbPages
  /\ tx_page' = tx_page + 1
  /\ tx_links' = links
  /\ tx_recs' = recs
  /\ tx_at' = "analyze"
  /\ tx_step' = 1
  /\ tx_session' = {}
  /\ UNCHANGED <<exceptCallback, tx_stored, acc_pages, acc_scores>>

\* analyzer.analyze runs before the session is opened
CbAnalyze ==
  /\ tx_at = "analyze"
  /\ \/ tx_at' = "tx"
     \/ tx_at' = "raised"
  /\ UNCHANGED <<exceptCallback, tx_page, tx_links, tx_recs, tx_step, tx_session,
                 tx_stored, acc_pages, acc_scores>>

\* one statement of the block: it flushes its rows, or raises and the block
\* is left through the except clause of get_db_context
CbStatement ==
  /\ tx_at = "tx"
  /\ tx_step \in DOMAIN CbSteps
  /\ \/ /\ tx_session' = tx_session \cup flushed(CbSteps[tx_step], tx_links, tx_recs)
        /\ tx_step' = tx_step + 1
        /\ UNCHANGED <<tx_at, tx_stored>>
     \/ /\ tx_stored' = [tx_stored EXCEPT ![tx_page] = get_db_context(tx_session, TRUE)]
        /\ tx_session' = {}
        /\ tx_at' = "raised"
        /\ UNCHANGED tx_step
  /\ UNCHANGED <<exceptCallback, tx_page, tx_links, tx_recs, acc_pages, acc_scores>>

\* the block ends: session.commit(), which may raise
CbExit ==
  /\ tx_at = "tx"
  /\ tx_step = Len(CbSteps) + 1
  /\ \E raised \in BOOLEAN :
       /\ tx_stored' = [tx_stored EXCEPT ![tx_page] = get_db_context(tx_session, raised)]
       /\ tx_at' = IF raised THEN "raised" ELSE "append"
  /\ tx_session' = {}
  /\ UNCHANGED <<exceptCallback, tx_page, tx_links, tx_recs, tx_step, acc_pages, acc_scores>>

\* analyzed_pages.append(analyzed); all_page_scores.append(page_score)
CbAppend ==
  /\ tx_at = "append"
  /\ acc_pages' = acc_pages \cup {tx_page}
  /\ acc_scores' = acc_scores \cup {tx_page}
  /\ tx_at' = "returned"
  /\ UNCHANGED <<exceptCallback, tx_page, tx_links, tx_recs, tx_step, tx_session, tx_stored>>

NextCallback ==
  \/ \E links, recs \in BOOLEAN : CbCall(links, recs)
  \/ CbAnalyze
  \/ CbStatement
  \/ CbExit
  \/ CbAppend

SpecCallback == InitCallback /\ [][NextCallback]_vars

\* ------------------------------------------------- post-crawl transaction
\* the statements of the post-crawl block, in order: upsert_site_score,
\* kw_repo.bulk_upsert, issue_repo.bulk_create, update_page_count,
\* update_status(COMPLETED)
PostSteps == <<"score", "keywords", "issues", "site", "status">>

OppCounts == {0, 1, KeywordCap, KeywordCap + MaxOppsOver}

kw_records_mut(n) == n

\* opportunities[:300], the list being sorted by opportunity_score, highest first
kw_records(n) == Min(n, KeywordCap)

\* what a statement of the block flushes to the session
post_flushed(step, opps, recs) ==
  CASE step = "score" -> {"score"}
    [] step = "keywords" -> IF kw_records(opps) > 0 THEN {"keywords"} ELSE {}
    [] step = "issues" -> IF recs THEN {"issues"} ELSE {}
    [] step = "site" -> {"site"}
    [] step = "status" -> {"status"}

PostWrites(opps, recs) ==
  UNION {post_flushed(PostSteps[k], opps, recs) : k \in DOMAIN PostSteps}

\* crawler.crawl() has returned its stats, the callbacks have filled the lists
InitPost ==
  /\ PipelineIdle
  /\ CoreIdle
  /\ CallbackIdle
  /\ ResourcesIdle
  /\ SitemapIdle
  /\ po_opps \in OppCounts
  /\ po_recs \in BOOLEAN
  /\ po_at = "crawled"
  /\ po_step = 1
  /\ po_session = {}
  /\ po_kw_session = 0
  /\ po_stored = {}
  /\ po_kw_rows = 0
  /\ po_status = "running"
  /\ po_handler = "none"

\* async with get_db_context() as db: the repositories are built
PostEnter ==
  /\ po_at = "crawled"
  /\ po_at' = "tx"
  /\ UNCHANGED <<exceptPost, po_opps, po_recs, po_step, po_session, po_kw_session,
                 po_stored, po_kw_rows, po_status, po_handler>>

\* one statement of the block: it flushes its rows, or raises and the block is
\* left through the except clause of get_db_context into the handler
PostStatement ==
  /\ po_at = "tx"
  /\ po_step \in DOMAIN PostSteps
  /\ \/ /\ po_session' = po_session \cup post_flushed(PostSteps[po_step], po_opps, po_recs)
        /\ po_kw_session' = IF PostSteps[po_step] = "keywords"
                            THEN kw_records(po_opps) ELSE po_kw_session
        /\ po_step' = po_step + 1
        /\ UNCHANGED <<po_at, po_stored, po_kw_rows, po_status>>
     \/ /\ po_stored' = get_db_context(po_session, TRUE)
        /\ po_kw_rows' = IF "keywords" \in po_stored' THEN po_kw_session ELSE 0
        /\ po_status' = IF "status" \in po_stored' THEN "completed" ELSE po_status
        /\ po_session' = {}
        /\ po_kw_session' = 0
        /\ po_at' = "handler"
        /\ UNCHANGED po_step
  /\ UNCHANGED <<exceptPost, po_opps, po_recs, po_handler>>

\* the block ends: session.commit(), which may raise
PostExit ==
  /\ po_at = "tx"
  /\ po_step = Len(PostSteps) + 1
  /\ \E raised \in BOOLEAN :
       /\ po_stored' = get_db_context(po_session, raised)
       /\ po_at' = IF raised THEN "handler" ELSE "returned"
  /\ po_kw_rows' = IF "keywords" \in po_stored' THEN po_kw_session ELSE 0
  /\ po_status' = IF "status" \in po_stored' THEN "completed" ELSE po_status
  /\ po_session' = {}
  /\ po_kw_session' = 0
  /\ UNCHANGED <<exceptPost, po_opps, po_recs, po_step, po_handler>>

\* except Exception: update_status(FAILED) in a transaction of its own, then
\* raise; that transaction may raise as well
PostHandler ==
  /\ po_at = "handler"
  /\ \E raised \in BOOLEAN :
       /\ po_status' = IF "failed" \in get_db_context({"failed"}, raised)
                       THEN "failed" ELSE po_status
       /\ po_handler' = IF raised THEN "raised" ELSE "committed"
  /\ po_at' = "raised"
  /\ UNCHANGED <<exceptPost, po_opps, po_recs, po_step, po_session, po_kw_session,
                 po_stored, po_kw_rows>>

NextPost ==
  \/ PostEnter
  \/ PostStatement
  \/ PostExit
  \/ PostHandler

SpecPost == InitPost /\ [][NextPost]_vars

\* ------------------------------------------------- crawler resources
\* the close calls of _teardown, in order
TeardownSteps == <<"http", "browser", "playwright">>

\* what a close call releases: closing the browser closes its contexts,
\* stopping the driver ends its browsers
closes(r) ==
  CASE r = "http" -> {"http"}
    [] r = "browser" -> {"browser", "context"}
    [] r = "playwright" -> {"playwright", "browser", "context"}

InitResources ==
  /\ PipelineIdle
  /\ CoreIdle
  /\ CallbackIdle
  /\ PostIdle
  /\ SitemapIdle
  /\ rs_js \in BOOLEAN
  /\ rs_at = "new"
  /\ rs_step = 1
  /\ rs_exc = FALSE
  /\ rs_held = {}
  /\ rs_pages = 0

\* __aenter__ -> _setup: the HTTP client is created
SetupClient ==
  /\ rs_at = "new"
  /\ rs_held' = rs_held \cup {"http"}
  /\ rs_at' = IF rs_js THEN "playwright" ELSE "robots"
  /\ UNCHANGED <<exceptResources, rs_js, rs_step, rs_exc, rs_pages>>

\* _setup: async_playwright().start(); when it raises, __aenter__ raises and
\* __aexit__ is not run
SetupPlaywright ==
  /\ rs_at = "playwright"
  /\ \/ /\ rs_held' = rs_held \cup {"playwright"}
        /\ rs_at' = "browser"
     \/ /\ rs_at' = "raised"
        /\ UNCHANGED rs_held
  /\ UNCHANGED <<exceptResources, rs_js, rs_step, rs_exc, rs_pages>>

\* _setup: chromium.launch(); when it raises, __aenter__ raises
SetupBrowser ==
  /\ rs_at = "browser"
  /\ \/ /\ rs_held' = rs_held \cup {"browser"}
        /\ rs_at' = "robots"
     \/ /\ rs_at' = "raised"
        /\ UNCHANGED rs_held
  /\ UNCHANGED <<exceptResources, rs_js, rs_step, rs_exc, rs_pages>>

\* _setup: robots_checker.fetch() catches whatever the request raises
SetupRobots ==
  /\ rs_at = "robots"
  /\ rs_at' = "crawl"
  /\ UNCHANGED <<exceptResources, rs_js, rs_step, rs_exc, rs_held, rs_pages>>

\* _fetch_url: over the HTTP client, or in a browser context of its own, which
\* is open while the page loads unless new_context() itself raised
FetchPage ==
  /\ rs_at = "crawl"
  /\ rs_pages < MaxFetches
  /\ rs_pages' = rs_pages + 1
  /\ IF rs_js
     THEN \/ /\ rs_held' = rs_held \cup {"context"}
             /\ rs_at' = "page"
          \/ UNCHANGED <<rs_held, rs_at>>
     ELSE UNCHANGED <<rs_held, rs_at>>
  /\ UNCHANGED <<exceptResources, rs_js, rs_step, rs_exc>>

\* _fetch_with_playwright: "finally: await context.close()", whether the page
\* loaded or not; a close() that raises may leave the context open
ContextClose ==
  /\ rs_at = "page"
  /\ \/ rs_held' = rs_held \ {"context"}
     \/ UNCHANGED rs_held
  /\ rs_at' = "crawl"
  /\ UNCHANGED <<exceptResources, rs_js, rs_step, rs_exc, rs_pages>>

\* the body of the "async with" ends, by return or by an exception:
\* __aexit__ -> _teardown
CrawlEnd ==
  /\ rs_at = "crawl"
  /\ rs_exc' \in BOOLEAN
  /\ rs_at' = "teardown"
  /\ rs_step' = 1
  /\ UNCHANGED <<exceptResources, rs_js, rs_held, rs_pages>>

\* _teardown: one "if self._x: await self._x.close()"; a close call that raises
\* ends _teardown, the calls after it are not made
TeardownStep ==
  /\ rs_at = "teardown"
  /\ rs_step \in DOMAIN TeardownSteps
  /\ LET r == TeardownSteps[rs_step]
         last == rs_step = Len(TeardownSteps)
         after == IF ~last THEN "teardown" ELSE IF rs_exc THEN "raised" ELSE "closed"
     IN IF r \notin rs_held
        THEN /\ rs_step' = rs_step + 1
             /\ rs_at' = after
             /\ UNCHANGED rs_held
        ELSE \/ /\ rs_held' = rs_held \ closes(r)
                /\ rs_step' = rs_step + 1
                /\ rs_at' = after
             \/ /\ rs_held' \in {rs_held, rs_held \ closes(r)}
                /\ rs_at' = "raised"
                /\ UNCHANGED rs_step
  /\ UNCHANGED <<exceptResources, rs_js, rs_exc, rs_pages>>

NextResources ==
  \/ SetupClient
  \/ SetupPlaywright
  \/ SetupBrowser
  \/ SetupRobots
  \/ FetchPage
  \/ ContextClose
  \/ CrawlEnd
  \/ TeardownStep

SpecResources == InitResources /\ [][NextResources]_vars

\* ---------------------------------------------------------- SitemapParser
PageLocs == {"/p1", "/p2", "/p3"}

UrlSet(locs) == [kind |-> "urlset", locs |-> locs]
SitemapIndex(refs) == [kind |-> "index", locs |-> refs]

\* the sites fetch_all is run against: what is served at the first two
\* conventional paths and at the named sitemaps, and the robots.txt hints
SitemapSites ==
  {[u \in SitemapUrls |->
      CASE u = "/sitemap.xml" -> main
        [] u = "/sitemap_index.xml" -> second
        [] u = "/s1.xml" -> one
        [] u = "/s2.xml" -> two
        [] OTHER -> NoSitemap] :
    main \in {NoSitemap, UrlSet({"/p1"}), SitemapIndex({"/s1.xml"}),
              SitemapIndex({"/s1.xml", "/s2.xml"})},
    second \in {NoSitemap, UrlSet({"/p3"})},
    one \in {NoSitemap, UrlSet({"/p1", "/p2"})},
    two \in {NoSitemap, UrlSet({"/p2", "/p3"})}}

InitSitemap ==
  /\ PipelineIdle
  /\ CoreIdle
  /\ CallbackIdle
  /\ PostIdle
  /\ ResourcesIdle
  /\ sm_site \in SitemapSites
  /\ sm_hints \in SUBSET NamedSitemaps
  /\ sm_at = "discover"
  /\ sm_i = 1
  /\ sm_candidates = <<>>
  /\ sm_processed = {}
  /\ sm_gets = <<>>
  /\ sm_discovered = {}
  /\ sm_result = {}

\* response.status_code == 200 for a HEAD or GET of the url
status_200(u) == sm_site[u].kind # "none"

\* _parse_xml: the <loc> of every <sitemap> tag when there is one, else the
\* <loc> of every <url> tag
parse_xml(d) ==
  IF d.kind = "index" /\ d.locs # {} THEN d.locs
  ELSE IF d.kind = "urlset" THEN d.locs
  ELSE {}

\* _discover_sitemaps: HEAD of one conventional path
DiscoverHead ==
  /\ sm_at = "discover"
  /\ sm_i \in DOMAIN COMMON_SITEMAP_PATHS
  /\ LET u == COMMON_SITEMAP_PATHS[sm_i]
     IN sm_candidates' = IF status_200(u) THEN Append(sm_candidates, u) ELSE sm_candidates
  /\ IF sm_i = Len(COMMON_SITEMAP_PATHS)
     THEN sm_at' = "parse" /\ sm_i' = 1
     ELSE sm_at' = "discover" /\ sm_i' = sm_i + 1
  /\ UNCHANGED <<exceptSitemap, sm_site, sm_hints, sm_processed, sm_gets,
                 sm_discovered, sm_result>>

\* fetch_all: _parse_sitemap of one candidate
ParseSitemap ==
  /\ sm_at = "parse"
  /\ sm_i \in DOMAIN sm_candidates
  /\ LET u == sm_candidates[sm_i]
     IN IF u \in sm_processed
        THEN UNCHANGED <<sm_processed, sm_gets, sm_discovered>>
        ELSE /\ sm_processed' = sm_processed \cup {u}
             /\ sm_gets' = Append(sm_gets, u)
             /\ sm_discovered' = sm_discovered \cup
                   (IF status_200(u) THEN parse_xml(sm_site[u]) ELSE {})
  /\ sm_i' = sm_i + 1
  /\ UNCHANGED <<exceptSitemap, sm_site, sm_hints, sm_at, sm_candidates, sm_result>>

\* fetch_all: return list(set(discovered_urls))
FetchAllReturn ==
  /\ sm_at = "parse"
  /\ sm_i = Len(sm_candidates) + 1
  /\ sm_result' = sm_discovered
  /\ sm_at' = "done"
  /\ UNCHANGED <<exceptSitemap, sm_site, sm_hints, sm_i, sm_candidates, sm_processed,
                 sm_gets, sm_discovered>>

NextSitemap ==
  \/ DiscoverHead
  \/ ParseSitemap
  \/ FetchAllReturn

SpecSitemap == InitSitemap /\ [][NextSitemap]_vars

\* ------------------------------------------------------------------ claims
Rows == {j \in JobIds : jobs[j].status # "none"}
Running == wjob # NoJob /\ pc \in {"seed", "loop", "gather", "post"}

\* C1: in every reachable state each site has at most one committed crawl
\* job whose status is pending, running or paused
C1_OneActiveJobPerSite ==
  \A d \in Domains :
    Cardinality({j \in JobIds : Visible(j) /\ jobs[j].site = d
                                /\ jobs[j].status \in NonTerminal}) <= 1

\* C2: for every job row, and for the counters of the crawler working on it,
\* pages_crawled + pages_failed never exceeds max_pages
C2_CountersWithinMaxPages ==
  /\ \A j \in Rows : jobs[j].pages_crawled + jobs[j].pages_failed <= jobs[j].max_pages
  /\ Running => stats.pages_crawled + stats.pages_failed <= jobs[wjob].max_pages

\* C3: the crawler's count of successfully crawled pages never exceeds the
\* job's max_pages, whatever max_concurrent is
C3_CrawledWithinMaxPages ==
  Running => stats.pages_crawled <= jobs[wjob].max_pages

\* C4: a job row has completed_at set exactly when its status is completed,
\* failed or cancelled
C4_CompletedAtIffTerminal ==
  \A j \in Rows : jobs[j].completed_at <=> jobs[j].status \in Terminal

\* C5: once a job row is completed, failed or cancelled no step changes its
\* status again
C5_TerminalIsFinal ==
  [][\A j \in JobIds : jobs[j].status \in Terminal => jobs'[j].status = jobs[j].status]_vars

\* C6: once the job a worker crawls is cancelled, the row stays cancelled, no
\* page row is written any more and the loop drains no further batch
C6_CancelObserved ==
  [][(wjob # NoJob /\ jobs[wjob].status = "cancelled")
       => /\ jobs'[wjob].status = "cancelled"
          /\ pages' = pages
          /\ (pc = "loop" => pc' # "gather")]_vars

\* C7: whenever the driver has raised, the job row is failed and carries an
\* error message of at most 2000 characters
C7_ExceptionMarksFailed ==
  pc = "raised" => /\ jobs[wjob].status = "failed"
                   /\ jobs[wjob].error_len \in 1..ErrorMessageCap

\* C8: a step in which on_page_crawled raises leaves the job running, moves on
\* to the next result of the batch or back to the loop test, and still
\* enqueues the page's links when its depth is below max_depth; when the crawl
\* has run out, every fetched result was handed to the callback or counted as
\* an exception, the loop ended for its own reasons, and the job is completed
C8_CallbackErrorContained ==
  /\ [][cb_errors' \ cb_errors # {} =>
          /\ pc' = IF idx = Len(batch) THEN "loop" ELSE "gather"
          /\ (pc' = "gather" => idx' = idx + 1 /\ batch' = batch)
          /\ jobs'[wjob].status = "running"
          /\ (batch[idx][2] < jobs[wjob].max_depth /\ results[idx] = "ok" =>
                \A k \in DOMAIN PageLinks(batch[idx][1].path) :
                   normalize_url(PageLinks(batch[idx][1].path)[k]) \in queued_urls')]_vars
  /\ [](pc \in {"loop", "post"} => fetched \subseteq called \cup failed_urls)
  /\ [](pc = "post" => \/ \A k \in DOMAIN url_queue : url_queue[k][1] \in visited_urls
                       \/ stats.pages_crawled >= jobs[wjob].max_pages)
  /\ [](pc = "returned" /\ cb_errors # {} => jobs[wjob].status = "completed")

\* a callback raised for the start page, the page it links to was crawled in a
\* later batch, and the job is completed
C8_Witness ==
  /\ pc = "returned"
  /\ StartURL \in cb_errors
  /\ URL("a", FALSE) \in analyzed_pages
  /\ web.sitemap = {}
  /\ jobs[wjob].status = "completed"

\* robots.txt is in force for the crawler and disallows u
RobotsDenies(u) == robots /\ u.path \in RobotsDisallow

\* C9: a url robots.txt denies is never handed to the fetcher nor to the
\* callback, has no page row and is not in the failed set; the step that
\* handles its empty result leaves both counters alone
C9_DeniedNeverFetched ==
  /\ [](\A u \in AllURLs : RobotsDenies(u) =>
          /\ u \notin fetched
          /\ u \notin called
          /\ u \notin failed_urls
          /\ pages[u] = NoJob)
  /\ [][(pc = "gather" /\ Gathered /\ idx \in DOMAIN batch /\ RobotsDenies(batch[idx][1])
         /\ pc' \in {"gather", "loop"} /\ idx' # idx)
          => stats' = stats /\ failed_urls' = failed_urls /\ jobs' = jobs]_vars

\* the crawl ran out after the start page was crawled and both spellings of
\* the denied page were drained: one crawled, none failed
C9_Witness ==
  /\ pc = "post"
  /\ \A u \in {URL("a", FALSE), URL("a", TRUE)} : u \in visited_urls /\ RobotsDenies(u)
  /\ stats.pages_crawled = 1
  /\ stats.pages_failed = 0
  /\ pages[StartURL] = wjob

\* C10: every queued or drained pair has a depth between 0 and max_depth, and
\* handling a result of depth max_depth enqueues nothing
C10_DepthBounded ==
  /\ [](Running =>
          /\ \A k \in DOMAIN url_queue :
               url_queue[k][2] >= 0 /\ url_queue[k][2] <= jobs[wjob].max_depth
          /\ \A k \in DOMAIN batch :
               batch[k][2] >= 0 /\ batch[k][2] <= jobs[wjob].max_depth)
  /\ [][(pc = "gather" /\ Gathered /\ idx \in DOMAIN batch
         /\ batch[idx][2] = jobs[wjob].max_depth /\ pc' \in {"gather", "loop"})
          => url_queue' = url_queue /\ queued_urls' = queued_urls]_vars

\* page a was crawled at depth 1 = max_depth; its link b was never queued
C10_Witness ==
  /\ pc = "post"
  /\ jobs[wjob].max_depth = 1
  /\ web.linked /\ web.sitemap = {}
  /\ URL("a", FALSE) \in analyzed_pages \ failed_urls
  /\ URL("b", FALSE) \notin queued_urls

\* C11: callers of acquire(h) pass one at a time: at most one coroutine is
\* inside the lock of h and it is the recorded holder; the instants at which
\* successive acquire(h) calls return are at least one min_interval apart; a
\* coroutine kept waiting at the lock, and the wake-up time of a sleeper, depend
\* on the lock and the last-request time of its own host only
C11_PacedPerHost ==
  /\ \A h \in Hosts :
       /\ Cardinality({c \in Callers : acq[c].pc = "sleep" /\ acq[c].domain = h}) <= 1
       /\ \A c \in Callers : acq[c].pc = "sleep" /\ acq[c].domain = h => locks[h] = c
       /\ locks[h] # NoCaller => acq[locks[h]].pc = "sleep" /\ acq[locks[h]].domain = h
       /\ \A i \in 1..(Len(returned[h]) - 1) :
            returned[h][i + 1] - returned[h][i] >= TicksPerInterval
  /\ \A c \in Callers :
       /\ acq[c].pc = "lock" /\ locks[acq[c].domain] = NoCaller => ENABLED AcquireEnter(c)
       /\ acq[c].pc = "sleep" =>
            acq[c].wake = last_request[acq[c].domain] + TicksPerInterval

\* two calls for h1 returned one min_interval apart or more while a call for
\* h2 returned in between, at an instant at which the lock of h1 was held
C11_Witness ==
  /\ Len(returned["h1"]) >= 2
  /\ Len(returned["h2"]) >= 1
  /\ returned["h1"][1] < returned["h2"][1]
  /\ returned["h2"][1] < returned["h1"][2]
  /\ returned["h2"][1] - returned["h1"][1] < TicksPerInterval

\* C12: the url of every persisted Page row is in normalized form, whether
\* the url fetched came from the start url, a sitemap or a link
C12_PageUrlNormalized ==
  \A u \in AllURLs : pages[u] # NoJob => u = normalize_url(u)

\* C13: the internal_links_count of the Page row equals the number of Link
\* rows sourced from the page with is_internal = true
C13_LinkCountMatchesRows ==
  page_row.exists => page_row.internal_links_count = link_rows

\* C15: an analyzed page whose word_count is 0 has reading_time_seconds 1,
\* in the AnalyzedPage and in the Page row written from it
C15_ReadingTimeOfEmptyPage ==
  /\ cb_pc = "tx" /\ analyzed.word_count = 0 => analyzed.reading_time_seconds = 1
  /\ page_row.exists /\ page_row.word_count = 0 => page_row.reading_time_seconds = 1

\* C18: once the callback transaction of a crawl job committed for the page,
\* a page-level Score row of that job exists, as its Issue rows do
C18_PageScorePersisted ==
  page_row.exists => page_row.crawl_job_id \in score_rows

\* C16: the site has at most one committed Keyword row per keyword
C16_KeywordUnique ==
  \A k \in Keywords : kw_rows[k] <= 1

C17_NormalizeIdempotent ==
  url_pc = "done" =>
    /\ twice = once
    /\ (urlparse(url).path \notin {<<>>, <<"/">>} => slashed = once)

\* C19: while a job is crawled its row's pages_crawled never exceeds the
\* crawler's own count of successful results, and no step lowers the
\* pages_crawled of a job row
C19_RowCountsSuccessesOnly ==
  /\ [](Running => jobs[wjob].pages_crawled <= stats.pages_crawled)
  /\ [][\A j \in JobIds : jobs'[j].pages_crawled >= jobs[j].pages_crawled]_vars

\* C20: the HTTP fetcher returns a CrawlResult with status_code 0 only after
\* CRAWLER_MAX_RETRIES attempts, and a fetch whose first attempt raised a
\* transport or timeout error and whose second attempt is answered with 200
\* returns a successful result
C20_FetchRetried ==
  fetch_pc = "returned" =>
    /\ (outcome = "result:0" => attempts = 3)
    /\ (net[1] \in TransportErrors /\ net[2] = "200" => outcome = "result:200")

\* C21: while a crawl runs, the number of fetches in flight is at most
\* max_concurrent, which is at most CRAWLER_MAX_CONCURRENT, and the crawler
\* takes no item off the queue while a task of the current batch is unfinished
C21_BoundedInFlight ==
  /\ [](Cardinality(Held) <= max_concurrent /\ max_concurrent <= cfg)
  /\ [][(wjob' = wjob /\ Len(url_queue') < Len(url_queue))
          => \A i \in DOMAIN results : results[i] \notin {"new", "held"}]_vars

\* a second batch is in flight with every slot of the gate taken, after the
\* results of the first batch were handled
C21_Witness ==
  /\ pc = "gather"
  /\ called # {}
  /\ Held # {}
  /\ Cardinality(Held) = max_concurrent

\* C22: within one crawl no url is fetched more than once: the queue never
\* holds a url twice and a url is put in it only if it was never queued
\* before; a url goes into a batch only if it is not yet visited and is visited
\* from then on; a task fetches a url that no task fetched before
C22_FetchedOnce ==
  /\ [](/\ \A k, l \in DOMAIN url_queue : url_queue[k][1] = url_queue[l][1] => k = l
        /\ \A k, l \in DOMAIN batch : batch[k][1] = batch[l][1] => k = l
        /\ \A k \in DOMAIN batch : batch[k][1] \in visited_urls)
  /\ [][wjob' = wjob =>
          /\ visited_urls \subseteq visited_urls'
          /\ \A k \in DOMAIN url_queue' :
               k > Len(url_queue) => url_queue'[k][1] \notin queued_urls
          /\ (batch' # batch =>
                \A k \in DOMAIN batch' : batch'[k][1] \notin visited_urls)
          /\ \A i \in DOMAIN results :
               (i \in DOMAIN results' /\ results[i] = "held"
                /\ results'[i] \in {"ok", "bad", "exc"}) => batch[i][1] \notin fetched]_vars

\* the start page failed, page b was reached from the sitemap's page at depth 1
\* and crawled; its link back to the start page put nothing in the queue
C22_Witness ==
  /\ pc = "post"
  /\ StartURL \in failed_urls
  /\ web.sitemap # {}
  /\ jobs[wjob].max_depth = 2
  /\ URL("b", FALSE) \in called \ failed_urls
  /\ url_queue = <<>>

\* C23: in every state of a crawl every url of the visited set is in the
\* queued set
C23_VisitedWereQueued ==
  visited_urls \subseteq queued_urls

\* the start page, a page of the sitemap and a page found through a link have
\* all been drained into batches
C23_Witness ==
  /\ {StartURL, URL("a", TRUE), URL("a", FALSE)} \subseteq visited_urls
  /\ url_queue = <<>>

\* C24: for every page the callback has returned or raised for, either all
\* that the callback writes (page row, link rows, issue rows, the counter
\* increment) is committed or nothing of it is, and the page is in the
\* accumulators exactly when it is committed; no page has a part of its writes
\* committed at any time
C24_CallbackAtomic ==
  \A p \in CbPages :
    /\ tx_stored[p] # {} => p <= tx_page
    /\ (p = tx_page => tx_stored[p] \in {{}, CbWrites(tx_links, tx_recs)})
    /\ (p < tx_page \/ (p = tx_page /\ tx_at \in {"returned", "raised"}) =>
          /\ p \in acc_pages <=> tx_stored[p] # {}
          /\ p \in acc_scores <=> tx_stored[p] # {})

\* the callback of the first page raised and left nothing committed, the
\* callback of the second page committed all four writes and returned
C24_Witness ==
  /\ tx_page = 2
  /\ tx_at = "returned"
  /\ tx_stored[1] = {}
  /\ tx_stored[2] = Writes
  /\ acc_pages = {2}

C26_ResourcesReleased ==
  rs_at \in {"closed", "raised"} => rs_held = {}

\* number of GET requests fetch_all made for u
Gets(u) == Cardinality({k \in DOMAIN sm_gets : sm_gets[k] = u})

\* the <url><loc> entries of the url-set served at u
UrlSetLocs(u) == IF sm_site[u].kind = "urlset" THEN sm_site[u].locs ELSE {}

\* C27: when the sitemap found is a sitemap index whose entries point to
\* url-sets, fetch_all fetches each referenced sitemap once and returns the
\* union of the <url><loc> entries of those url-sets and of the url-sets found
\* directly; no <loc> of the index itself is returned as a page url
C27_SitemapIndexExpanded ==
  (/\ sm_at = "done"
   /\ sm_site["/sitemap.xml"].kind = "index"
   /\ \A r \in sm_site["/sitemap.xml"].locs : sm_site[r].kind = "urlset")
  => /\ \A r \in sm_site["/sitemap.xml"].locs : Gets(r) = 1
     /\ sm_result = UNION {UrlSetLocs(r) : r \in sm_site["/sitemap.xml"].locs}
                      \cup UrlSetLocs("/sitemap_index.xml")
     /\ sm_result \cap SitemapUrls = {}

\* C28: when robots.txt answered 200 and carries Sitemap: lines, every url on
\* those lines is fetched and parsed during seeding, so the pages of a url-set
\* named there are returned, beside those of the conventional paths
C28_RobotsHintsUsed ==
  sm_at = "done" =>
    \A h \in sm_hints :
      /\ Gets(h) >= 1
      /\ UrlSetLocs(h) \subseteq sm_result

\* C29: however the request handler and the worker interleave, a worker that
\* got through its first transaction has found the job and site rows and the
\* job is no longer pending; and when no request is open, no message waits and
\* no worker runs, no job row is pending
C29_WorkerFindsRows ==
  /\ (wjob # NoJob /\ pc \in {"setup", "seed", "loop", "gather", "post", "returned"}
        => /\ sites[jobs[wjob].site] = "committed"
           /\ Visible(wjob)
           /\ jobs[wjob].status # "pending")
  /\ (req = NoJob /\ broker = {} /\ pc = "idle"
        => \A j \in Rows : jobs[j].status # "pending")

====
